---- MODULE Spec2Model ----
(***************************************************************************)
(* Model of rasa_nlu/data_router.py: the DataRouter that serves parse      *)
(* requests from an agent registry (agent_store), launches training        *)
(* processes (start_train_process) and reports them (get_status).          *)
(*                                                                         *)
(* The request handlers are run by a pool of worker threads on one shared  *)
(* DataRouter; every handler is split at the points where it reads or      *)
(* writes the shared fields (agent_store, _train_procs), so the workers'   *)
(* steps interleave as the threads' do.  The training processes and the    *)
(* model directory are the environment.                                    *)
(*                                                                         *)
(* rasa/nlu/emulators/watson.py, the emulator that turns a parse result    *)
(* into the Watson response format, is modelled as a function with a       *)
(* specification of its own (WatsonSpec).                                  *)
(***************************************************************************)
EXTENDS Integers, Sequences, FiniteSets, TLC

\* ------------------------------------------------------------------ bounds
\* Number of worker threads serving requests on the one DataRouter.
NumWorkers == 2
\* Number of training processes ever created in one run.
MaxProcs == 2
\* Longest intent_ranking and entities lists of a parse result given to the
\* Watson emulator.
MaxLen == 2
\* Number of times the emulator is applied to one parse result.
MaxCalls == 2

\* ---------------------------------------------------------------- constants
DEFAULT_AGENT_NAME == "default"

\* Model names that training requests and the model directory can carry.
Names == {"default", "greeter"}
\* A name that is never trained, so never on durable storage.
GhostName == "ghost"
\* The value of data.get("agent") / _config.get("name") when the key is absent.
None == "None"

Workers == 1..NumWorkers
Pids == 1..MaxProcs

\* Artifact numbers: 0 is "no artifact" (Agent() without a model), 1 is the
\* artifact found in the model directory at startup, p + 1 is the artifact
\* published by training process p.
NoArtifact == 0
SeedArtifact == 1
ArtifactOf(p) == p + 1

VARIABLES
    config_name,     \* self.config['name']: the base configuration's name or None
    dir_exists,      \* os.path.isdir(self.config['path'])
    disk,            \* model directory: name -> artifact number (0: no subdirectory)
    agent_store,     \* self.agent_store: name -> Agent
    _train_procs,    \* self._train_procs: list of process handles
    procs,           \* the multiprocessing.Process objects: pid -> [name, st]
    pc,              \* each worker's position in the handler it runs
    local,           \* each worker's local variables
    ret,             \* what each worker's last request returned or raised
    responses,       \* self.responses is not None: the query logger is set up
    w_data,          \* the parse result handed to the Watson emulator
    w_outs           \* what normalise_response_json returned, call by call

\* The variables of the Watson emulator's caller.
emulatorVars == <<w_data, w_outs>>

vars == <<config_name, dir_exists, disk, agent_store, _train_procs, procs,
          pc, local, ret, responses, emulatorVars>>

\* ------------------------------------------------------------------ helpers
RECURSIVE SelectSeq2(_, _)
\* [p for p in s if p \in keep]
SelectSeq2(s, keep) ==
    IF s = <<>> THEN <<>>
    ELSE IF Head(s) \in keep
         THEN <<Head(s)>> \o SelectSeq2(Tail(s), keep)
         ELSE SelectSeq2(Tail(s), keep)

Range(s) == {s[i] : i \in 1..Len(s)}

\* Process.is_alive(): False before start() and after termination.
is_alive(p) == procs[p].st = "alive"

\* Process.ident: None (0) until the process is started.
ident(p) == IF procs[p].st = "new" THEN 0 ELSE p

\* Agent(config, component_builder, name): loads what the model directory
\* holds for the name; Agent() holds no artifact.  A new agent is idle.
Agent(artifact) == [artifact |-> artifact, status |-> 0]

\* Agent.parse: the inference result of the entry's loaded artifact.
AgentParse(a) == a.artifact

\* A response: the request (op, arg), the agent name it resolved to, how it
\* ended (out), the value returned (val) and, for get_status, the process ids.
\* tmp is not part of the response: it records that the request has written
\* its training data to a temporary file (which nothing deletes), and log
\* what became of the request's entry in the query log.  msg is the message
\* of the InvalidModelError parse raises.
NoRet == [op |-> "none", arg |-> None, name |-> None, out |-> "none",
          val |-> 0, ids |-> <<>>, tmp |-> FALSE, log |-> "none", msg |-> ""]
\* A handler's local variables.  pub is not a variable of the code: it records
\* the artifact a training had published for the agent when parse was called.
NoLocal == [arg |-> None, agent |-> None, proc |-> 0, list |-> <<>>, num |-> 0,
            pub |-> 0]

Return(w, r) ==
    /\ pc' = [pc EXCEPT ![w] = "idle"]
    /\ local' = [local EXCEPT ![w] = NoLocal]
    /\ ret' = [ret EXCEPT ![w] = r]

Goto(w, label, l) ==
    /\ pc' = [pc EXCEPT ![w] = label]
    /\ local' = [local EXCEPT ![w] = l]
    /\ ret' = [ret EXCEPT ![w] = NoRet]

\* ---------------------------------------------------------- Watson emulator
\* dict.get(key): the value, or None when the dict has no such key.
Get(d, key) == IF key \in DOMAIN d THEN d[key] ELSE None

\* Lines 24-27: one element of "intents".
WatsonIntent(el) == [intent |-> el["name"], confidence |-> el["confidence"]]

\* WatsonEntity with the exclusive end offset passed on as it is.
WatsonEntity_EndKept(e) ==
    [entity |-> e["entity"],
     location |-> <<Get(e, "start"), IF "end" \in DOMAIN e THEN e["end"] ELSE None>>,
     value |-> e["value"],
     confidence |-> Get(e, "confidence")]

\* Lines 29-37: one element of "entities".
WatsonEntity(e) ==
    [entity |-> e["entity"],
     location |-> <<Get(e, "start"), IF "end" \in DOMAIN e THEN e["end"] - 1 ELSE None>>,
     value |-> e["value"],
     confidence |-> Get(e, "confidence")]

\* WatsonEmulator.normalise_response_json
normalise_response_json(data) ==
    [intents |-> [i \in 1..Len(data["intent_ranking"]) |->
                    WatsonIntent(data["intent_ranking"][i])],
     entities |-> [i \in 1..Len(data["entities"]) |->
                    WatsonEntity(data["entities"][i])],
     input |-> [text |-> data["text"]]]

\* The sequences over S of length at most n.
BoundedSeq(S, n) == UNION {[1..k -> S] : k \in 0..n}

\* The elements of intent_ranking: a name and a confidence (in percent).
IntentEls == [name : {"greet", "bye"}, confidence : {70}]

\* An entity dict: "entity" and "value" always, and the keys of opt.
EntityDict(opt, end) ==
    [k \in {"entity", "value"} \cup opt |->
        CASE k = "entity" -> "city"
          [] k = "value" -> "rome"
          [] k = "start" -> 0
          [] k = "end" -> end
          [] k = "confidence" -> 90]

\* The entities of a parse result: start, end and confidence are optional,
\* [start, end) is half-open.
EntityDicts ==
    {EntityDict(opt, end) : opt \in SUBSET {"start", "end", "confidence"},
                            end \in {1, 5}}

\* The parse results handed to the emulator.
ParseResults ==
    [intent_ranking : BoundedSeq(IntentEls, MaxLen),
     entities : BoundedSeq(EntityDicts, MaxLen),
     text : {"hello rome"}]

\* The parse result of a run in which the emulator is not used.
NoResult == [intent_ranking |-> <<>>, entities |-> <<>>, text |-> ""]

\* The server applies the emulator to a parse result; data is only read.
Normalise ==
    /\ Len(w_outs) < MaxCalls
    /\ w_outs' = Append(w_outs, normalise_response_json(w_data))
    /\ w_data' = w_data
    /\ UNCHANGED <<config_name, dir_exists, disk, agent_store, _train_procs, procs,
                   pc, local, ret, responses>>

\* ------------------------------------------------------------- construction
\* _create_agent_store with the default agent added to every store.
_create_agent_store_AlwaysDefault(isdir, d) ==
    LET agents == IF isdir THEN {n \in Names : d[n] # NoArtifact} ELSE {}
    IN  [n \in agents \cup {DEFAULT_AGENT_NAME} |->
            IF n \in agents THEN Agent(d[n]) ELSE Agent(NoArtifact)]

\* DataRouter._create_agent_store
_create_agent_store(isdir, d) ==
    LET agents == IF isdir THEN {n \in Names : d[n] # NoArtifact} ELSE {}
    IN  IF agents # {}
        THEN [n \in agents |-> Agent(d[n])]
        ELSE [n \in {DEFAULT_AGENT_NAME} |-> Agent(NoArtifact)]

\* DataRouter.__init__ over every model directory and base configuration,
\* with the query logger set up or not as logs allows.
Construct(logs) ==
    /\ config_name \in {None, "greeter"}
    /\ dir_exists \in BOOLEAN
    /\ disk \in [Names -> {NoArtifact, SeedArtifact}]
    /\ (~dir_exists => disk = [n \in Names |-> NoArtifact])
    /\ agent_store = _create_agent_store(dir_exists, disk)
    /\ _train_procs = <<>>
    /\ procs = [p \in Pids |-> [name |-> None, st |-> "none"]]
    /\ pc = [w \in Workers |-> "idle"]
    /\ local = [w \in Workers |-> NoLocal]
    /\ ret = [w \in Workers |-> NoRet]
    /\ responses \in logs
    /\ w_data = NoResult
    /\ w_outs = <<>>

\* The router of the concurrent workers: no response_log is configured.
Init == Construct({FALSE})

\* The router that serves one request at a time: with and without a
\* response_log.
SeqInit == Construct(BOOLEAN)

\* A router that serves nothing, and the emulator given any parse result.
WatsonInit ==
    /\ config_name = None
    /\ dir_exists = FALSE
    /\ disk = [n \in Names |-> NoArtifact]
    /\ agent_store = _create_agent_store(dir_exists, disk)
    /\ _train_procs = <<>>
    /\ procs = [p \in Pids |-> [name |-> None, st |-> "none"]]
    /\ pc = [w \in Workers |-> "idle"]
    /\ local = [w \in Workers |-> NoLocal]
    /\ ret = [w \in Workers |-> NoRet]
    /\ responses = FALSE
    /\ w_data \in ParseResults
    /\ w_outs = <<>>

\* ------------------------------------------------------ start_train_process
\* MergedName with the base configuration's name ignored.
MergedName_OverridesOnly(ov) == ov

\* The merged configuration's name: the override wins key by key.
MergedName(ov) == IF ov = None THEN config_name ELSE ov

\* "if not agent": None and the empty string are both missing names.
Missing(agent) == agent \in {None, ""}

\* Processes created so far plus those the requests in flight will create.
Planned ==
    Cardinality({p \in Pids : procs[p].st # "none"})
    + Cardinality({w \in Workers : pc[w] \in {"t_set", "t_create"}})

\* The status check of lines 184-185 on the name of a training request.
TrainCheck(agent) ==
    IF agent \in DOMAIN agent_store
    THEN IF agent_store[agent].status = 1 THEN "raise" ELSE "set"
    ELSE "create"

\* How start_train_process ends for a request with the overrides' name ov:
\* InvalidModelError (line 183), AlreadyTrainingError (line 186) or a launch.
TrainOutcome(ov) ==
    IF Missing(MergedName(ov)) THEN "InvalidModelError"
    ELSE IF TrainCheck(MergedName(ov)) = "raise" THEN "AlreadyTrainingError"
    ELSE "ok"

\* Lines 170-186: write the temporary file, merge the configuration, reject
\* a request without a name, then check the agent's status.  Everything
\* before the check is local to the request.
TrainBegin(w, ov) ==
    /\ pc[w] = "idle"
    /\ Planned < MaxProcs
    /\ LET agent == MergedName(ov)
           r == [NoRet EXCEPT !.op = "train", !.arg = ov, !.name = agent,
                              !.tmp = TRUE]
           out == TrainOutcome(ov)
       IN  IF out # "ok"
           THEN Return(w, [r EXCEPT !.out = out])
           ELSE Goto(w, IF TrainCheck(agent) = "set" THEN "t_set" ELSE "t_create",
                     [NoLocal EXCEPT !.arg = ov, !.agent = agent])
    /\ UNCHANGED <<emulatorVars, responses, config_name,
                   dir_exists, disk, agent_store, _train_procs, procs>>

\* Line 188: self.agent_store[agent].status = 1
MarkTraining(store, agent) == [store EXCEPT ![agent].status = 1]

TrainSetStatus(w) ==
    /\ pc[w] = "t_set"
    /\ agent_store' = MarkTraining(agent_store, local[w].agent)
    /\ Goto(w, "t_create", local[w])
    /\ UNCHANGED <<emulatorVars, responses, config_name,
                   dir_exists, disk, _train_procs, procs>>

\* _add_train_proc
_add_train_proc(list, p) == Append(list, p)

\* Lines 190-191: create the Process object and add it to the list.
TrainCreate(w) ==
    /\ pc[w] = "t_create"
    /\ LET p == CHOOSE q \in Pids :
                    /\ procs[q].st = "none"
                    /\ \A r \in Pids : procs[r].st = "none" => q <= r
       IN  /\ procs' = [procs EXCEPT ![p] = [name |-> local[w].agent, st |-> "new"]]
           /\ _train_procs' = _add_train_proc(_train_procs, p)
           /\ Goto(w, "t_start", [local[w] EXCEPT !.proc = p])
    /\ UNCHANGED <<emulatorVars, responses, config_name,
                   dir_exists, disk, agent_store>>

\* Lines 192-193: process.start(); the method returns nothing.
TrainStart(w) ==
    /\ pc[w] = "t_start"
    /\ procs' = [procs EXCEPT ![local[w].proc].st = "alive"]
    /\ Return(w, [NoRet EXCEPT !.op = "train", !.arg = local[w].arg,
                               !.name = local[w].agent, !.out = "ok",
                               !.tmp = TRUE])
    /\ UNCHANGED <<emulatorVars, responses, config_name,
                   dir_exists, disk, agent_store, _train_procs>>

\* -------------------------------------------------------------- get_status
\* _remove_finished_procs, right-hand side: the processes still alive.
_remove_finished_procs(list) == SelectSeq2(list, {p \in Pids : is_alive(p)})

\* train_proc_ids: the idents of the listed processes.
train_proc_ids(list) == [i \in 1..Len(list) |-> ident(list[i])]

\* Line 161, train_procs property: evaluate the list comprehension of line 81.
StatusReap1(w) ==
    /\ pc[w] = "idle"
    /\ Goto(w, "s_len", [NoLocal EXCEPT !.list = _remove_finished_procs(_train_procs)])
    /\ UNCHANGED <<emulatorVars, responses, config_name,
                   dir_exists, disk, agent_store, _train_procs, procs>>

\* Lines 81, 93, 161: assign the filtered list and take its length.
StatusLen(w) ==
    /\ pc[w] = "s_len"
    /\ _train_procs' = local[w].list
    /\ Goto(w, "s_reap2", [NoLocal EXCEPT !.num = Len(local[w].list)])
    /\ UNCHANGED <<emulatorVars, responses, config_name,
                   dir_exists, disk, agent_store, procs>>

\* Line 166, train_proc_ids: evaluate the list comprehension of line 81 again.
StatusReap2(w) ==
    /\ pc[w] = "s_reap2"
    /\ Goto(w, "s_ids", [local[w] EXCEPT !.list = _remove_finished_procs(_train_procs)])
    /\ UNCHANGED <<emulatorVars, responses, config_name,
                   dir_exists, disk, agent_store, _train_procs, procs>>

\* Lines 81, 93, 97, 163-167: assign the filtered list and return the status.
StatusReturn(w) ==
    /\ pc[w] = "s_ids"
    /\ _train_procs' = local[w].list
    /\ Return(w, [NoRet EXCEPT !.op = "status", !.out = "ok", !.val = local[w].num,
                               !.ids = train_proc_ids(local[w].list)])
    /\ UNCHANGED <<emulatorVars, responses, config_name,
                   dir_exists, disk, agent_store, procs>>

\* ------------------------------------------------------------------- parse
\* Line 135: data.get("agent") or DEFAULT_AGENT_NAME
ParseName(a) == IF Missing(a) THEN DEFAULT_AGENT_NAME ELSE a

\* os.listdir(self.config['path'])
listdir == {n \in Names : disk[n] # NoArtifact}

\* ParseRoute with every request looking the agent up in the model directory.
ParseRoute_AlwaysLoad(agent) == "p_load"

\* ParseRoute with agents under training treated as not loaded.
ParseRoute_SkipTraining(agent) ==
    IF agent \in DOMAIN agent_store /\ agent_store[agent].status = 0
    THEN "p_infer" ELSE "p_load"

\* Line 138: an agent of the store is used as it is, any other is loaded.
ParseRoute(agent) == IF agent \in DOMAIN agent_store THEN "p_infer" ELSE "p_load"

\* The artifact published for the agent by a training that has completed.
Published(agent) ==
    IF \E p \in Pids : procs[p].name = agent /\ procs[p].st = "done"
    THEN disk[agent] ELSE NoArtifact

\* Lines 135-138: pick the agent and look it up in the store.
ParseBegin(w, a) ==
    /\ pc[w] = "idle"
    /\ LET agent == ParseName(a)
       IN  Goto(w, ParseRoute(agent),
                [NoLocal EXCEPT !.arg = a, !.agent = agent, !.pub = Published(agent)])
    /\ UNCHANGED <<emulatorVars, responses, config_name,
                   dir_exists, disk, agent_store, _train_procs, procs>>

\* Lines 139-146 for an agent that is not in the store: what the lookup in
\* the model directory and the construction of the Agent end in.
ParseLoadOutcome(agent, loadFails) ==
    IF ~dir_exists THEN "OSError"
    ELSE IF agent \notin listdir THEN "InvalidModelError"
    ELSE IF loadFails THEN "InvalidModelError"
    ELSE "ok"

\* Line 144: self.agent_store[agent] = Agent(...)
StoreAgent(store, agent, a) ==
    [n \in DOMAIN store \cup {agent} |-> IF n = agent THEN a ELSE store[n]]

\* The message of the error raised at line 141 or at line 146.
ParseLoadMessage(agent, loadFails) ==
    IF ~dir_exists THEN ""
    ELSE IF agent \notin listdir THEN "No agent found with name."
    ELSE IF loadFails THEN "No agent found with name. Error:"
    ELSE ""

\* ParseLoad with the entry put into the store before the Agent is built, so
\* that a failed construction leaves an empty entry behind.
ParseLoad_KeepsFailedEntry(w, loadFails) ==
    /\ pc[w] = "p_load"
    /\ LET agent == local[w].agent
           out == ParseLoadOutcome(agent, loadFails)
       IN  IF out = "ok"
           THEN /\ agent_store' = StoreAgent(agent_store, agent, Agent(disk[agent]))
                /\ Goto(w, "p_infer", local[w])
           ELSE /\ agent_store' =
                      IF dir_exists /\ agent \in listdir
                      THEN StoreAgent(agent_store, agent, Agent(NoArtifact))
                      ELSE agent_store
                /\ Return(w, [NoRet EXCEPT !.op = "parse", !.arg = local[w].arg,
                                           !.name = agent, !.out = out,
                                           !.msg = ParseLoadMessage(agent, loadFails)])
    /\ UNCHANGED <<emulatorVars, responses, config_name,
                   dir_exists, disk, _train_procs, procs>>

\* Lines 139-146: look the agent up in the model directory and construct it;
\* the store is assigned only when the construction has returned.
ParseLoad(w, loadFails) ==
    /\ pc[w] = "p_load"
    /\ LET agent == local[w].agent
           out == ParseLoadOutcome(agent, loadFails)
       IN  IF out = "ok"
           THEN /\ agent_store' = StoreAgent(agent_store, agent, Agent(disk[agent]))
                /\ Goto(w, "p_infer", local[w])
           ELSE /\ agent_store' = agent_store
                /\ Return(w, [NoRet EXCEPT !.op = "parse", !.arg = local[w].arg,
                                           !.name = agent, !.out = out,
                                           !.msg = ParseLoadMessage(agent, loadFails)])
    /\ UNCHANGED <<emulatorVars, responses, config_name,
                   dir_exists, disk, _train_procs, procs>>

\* What can go wrong with the log entry of a request: nothing, json.dumps
\* cannot serialise the response ("build"), or the handler cannot write the
\* line to the log file ("write").
LogFaults == {"none", "build", "write"}

\* Lines 149-152: nothing is logged without a logger; json.dumps raises out
\* of parse (a TypeError); Logger.info hands a write error to the handler's
\* handleError and returns.
LogOutcome(fault) ==
    IF ~responses THEN "none"
    ELSE CASE fault = "build" -> "TypeError"
           [] fault = "write" -> "lost"
           [] OTHER -> "written"

\* ParseInfer with the entry built again from the model directory before the
\* inference.
ParseInfer_Reloads(w, fault) ==
    /\ pc[w] = "p_infer"
    /\ LET agent == local[w].agent
           store == IF dir_exists /\ agent \in listdir
                    THEN StoreAgent(agent_store, agent, Agent(disk[agent]))
                    ELSE agent_store
           r == [NoRet EXCEPT !.op = "parse", !.arg = local[w].arg, !.name = agent]
           log == LogOutcome(fault)
       IN  /\ agent_store' = store
           /\ IF log = "TypeError"
              THEN Return(w, [r EXCEPT !.out = "TypeError"])
              ELSE Return(w, [r EXCEPT !.out = "ok", !.log = log,
                                       !.val = AgentParse(store[agent])])
    /\ UNCHANGED <<emulatorVars, responses, config_name,
                   dir_exists, disk, _train_procs, procs>>

\* Lines 148-153: the inference of the stored entry, logged when the query
\* logger is set up, then formatted.
ParseInfer(w, fault) ==
    /\ pc[w] = "p_infer"
    /\ LET r == [NoRet EXCEPT !.op = "parse", !.arg = local[w].arg,
                              !.name = local[w].agent]
           log == LogOutcome(fault)
       IN  IF log = "TypeError"
           THEN Return(w, [r EXCEPT !.out = "TypeError"])
           ELSE Return(w, [r EXCEPT !.out = "ok", !.log = log,
                                    !.val = AgentParse(agent_store[local[w].agent])])
    /\ UNCHANGED <<emulatorVars, responses, config_name,
                   dir_exists, disk, agent_store, _train_procs, procs>>

\* ------------------------------------------------------ training processes
\* ProcSucceeds for a training that runs inside the router and puts the
\* trained agent into agent_store itself.
ProcSucceeds_SharedStore(p) ==
    /\ procs[p].st = "alive"
    /\ procs' = [procs EXCEPT ![p].st = "done"]
    /\ disk' = [disk EXCEPT ![procs[p].name] = ArtifactOf(p)]
    /\ dir_exists' = TRUE
    /\ agent_store' = StoreAgent(agent_store, procs[p].name, Agent(ArtifactOf(p)))
    /\ UNCHANGED <<emulatorVars, responses, config_name,
                   _train_procs, pc, local, ret>>

\* do_train in the child process runs to completion and persists the model
\* under the configured name.
ProcSucceeds(p) ==
    /\ procs[p].st = "alive"
    /\ procs' = [procs EXCEPT ![p].st = "done"]
    /\ disk' = [disk EXCEPT ![procs[p].name] = ArtifactOf(p)]
    /\ dir_exists' = TRUE
    /\ UNCHANGED <<emulatorVars, responses, config_name,
                   agent_store, _train_procs, pc, local, ret>>

\* The child process crashes or is killed: nothing is published.
ProcCrashes(p) ==
    /\ procs[p].st = "alive"
    /\ procs' = [procs EXCEPT ![p].st = "crashed"]
    /\ UNCHANGED <<emulatorVars, responses, config_name,
                   dir_exists, disk, agent_store, _train_procs,
                   pc, local, ret>>

\* How parse ends for a request with the agent name a (lines 135-153).
ParseOutcome(a, loadFails, fault) ==
    IF ParseRoute(ParseName(a)) = "p_load"
          /\ ParseLoadOutcome(ParseName(a), loadFails) # "ok"
    THEN ParseLoadOutcome(ParseName(a), loadFails)
    ELSE IF LogOutcome(fault) = "TypeError" THEN "TypeError"
    ELSE "ok"

\* ---------------------------------------------------------- specification
Next ==
    \/ \E w \in Workers, ov \in Names \cup {None, ""} : TrainBegin(w, ov)
    \/ \E w \in Workers : TrainSetStatus(w)
    \/ \E w \in Workers : TrainCreate(w)
    \/ \E w \in Workers : TrainStart(w)
    \/ \E w \in Workers : StatusReap1(w)
    \/ \E w \in Workers : StatusLen(w)
    \/ \E w \in Workers : StatusReap2(w)
    \/ \E w \in Workers : StatusReturn(w)
    \/ \E w \in Workers, a \in Names \cup {GhostName, None} : ParseBegin(w, a)
    \/ \E w \in Workers, loadFails \in BOOLEAN : ParseLoad(w, loadFails)
    \/ \E w \in Workers, fault \in LogFaults : ParseInfer(w, fault)
    \/ \E p \in Pids : ProcSucceeds(p)
    \/ \E p \in Pids : ProcCrashes(p)

Spec == Init /\ [][Next]_vars

\* The same router serving one request at a time: a single worker runs every
\* handler from its first statement to its return, and the training
\* processes end at any point in between.
SeqWorker == CHOOSE w \in Workers : \A v \in Workers : w <= v

SeqNext ==
    \/ \E ov \in Names \cup {None, ""} : TrainBegin(SeqWorker, ov)
    \/ TrainSetStatus(SeqWorker)
    \/ TrainCreate(SeqWorker)
    \/ TrainStart(SeqWorker)
    \/ StatusReap1(SeqWorker)
    \/ StatusLen(SeqWorker)
    \/ StatusReap2(SeqWorker)
    \/ StatusReturn(SeqWorker)
    \/ \E a \in Names \cup {GhostName, None} : ParseBegin(SeqWorker, a)
    \/ \E loadFails \in BOOLEAN : ParseLoad(SeqWorker, loadFails)
    \/ \E fault \in LogFaults : ParseInfer(SeqWorker, fault)
    \/ \E p \in Pids : ProcSucceeds(p)
    \/ \E p \in Pids : ProcCrashes(p)

SeqSpec == SeqInit /\ [][SeqNext]_vars

\* The emulator alone.
WatsonNext == Normalise

WatsonSpec == WatsonInit /\ [][WatsonNext]_vars

\* ------------------------------------------------------------------ claims
\* The training processes of a name that are running.
LiveProcs(n) == {p \in Pids : procs[p].name = n /\ procs[p].st = "alive"}

\* C1: for every model name, at most one training process for that name is
\* alive at any time, whatever requests and terminations came before.
C1_AtMostOneLiveTraining ==
    \A n \in Names : Cardinality(LiveProcs(n)) <= 1

\* C2: training acceptance is atomic per name: for a name that is in
\* agent_store, no two concurrent requests have both passed the status check
\* of start_train_process (both about to set the status and launch).
C2_AtomicAcceptance ==
    \A w1, w2 \in Workers :
        (w1 # w2 /\ pc[w1] = "t_set" /\ pc[w2] = "t_set")
            => local[w1].agent # local[w2].agent

\* A training job for the name is in progress: a request has been accepted
\* and its process has not terminated.
JobInProgress(n) ==
    \/ \E p \in Pids : procs[p].name = n /\ procs[p].st \in {"new", "alive"}
    \/ \E w \in Workers : pc[w] \in {"t_set", "t_create"} /\ local[w].agent = n

\* A step in which worker w completes a request of kind op.
Responds(w, op) ==
    /\ pc'[w] = "idle"
    /\ ret'[w].op = op
    /\ (pc[w] # "idle" \/ ret'[w] # ret[w])

\* C3: no permanent lock-out: a training request is rejected with
\* AlreadyTrainingError only while a job for its name is in progress, so once
\* the accepted job's process has terminated the next request is accepted.
C3_NoLockOut ==
    [][\A w \in Workers :
          (Responds(w, "train") /\ ret'[w].out = "AlreadyTrainingError")
              => JobInProgress(ret'[w].name)]_vars

\* A step in which worker w enters parse (lines 135-138).
EntersParse(w) == pc[w] = "idle" /\ pc'[w] \in {"p_infer", "p_load"}

Training(store, n) == n \in DOMAIN store /\ store[n].status = 1

\* C4: inference during training is served: a parse for a name that is in
\* agent_store with status training goes on to the inference without raising,
\* and returns the result of the entry stored for the name, which the request
\* leaves in place.
C4_ServedWhileTraining ==
    [][\A w \in Workers :
          /\ (EntersParse(w) /\ Training(agent_store, local'[w].agent))
                => pc'[w] = "p_infer"
          /\ (pc[w] = "p_infer" /\ Responds(w, "parse")
                /\ Training(agent_store, local[w].agent))
                => /\ ret'[w].out = "ok"
                   /\ ret'[w].val = agent_store[local[w].agent].artifact
                   /\ agent_store' = agent_store]_vars

\* C4 happens: a parse was answered for a name that is training while its
\* training process runs.
C4_Witness ==
    \E w \in Workers :
        /\ ret[w].op = "parse" /\ ret[w].out = "ok"
        /\ Training(agent_store, ret[w].name)
        /\ LiveProcs(ret[w].name) # {}
        /\ ret[w].val = agent_store[ret[w].name].artifact

\* C5: after a training job for a name has completed successfully, a parse
\* request for the name that starts afterwards is served by the newly trained
\* artifact (the one published when it started, or a newer one).
C5_ServedByNewArtifact ==
    [][\A w \in Workers :
          (pc[w] = "p_infer" /\ Responds(w, "parse") /\ ret'[w].out = "ok"
                /\ local[w].pub # NoArtifact)
              => ret'[w].val \in {local[w].pub, disk[local[w].agent]}]_vars

\* C6: a parse request whose agent is neither a key of agent_store nor a
\* subdirectory of the model directory fails with InvalidModelError and
\* leaves agent_store unchanged.
C6_UnknownAgentInvalidModel ==
    [][\A w \in Workers :
          (pc[w] = "p_load" /\ Responds(w, "parse")
                /\ local[w].agent \notin DOMAIN agent_store
                /\ local[w].agent \notin listdir)
              => /\ ret'[w].out = "InvalidModelError"
                 /\ agent_store' = agent_store]_vars

\* A step in which training process p terminates (success, crash or kill).
Terminates(p) == procs[p].st = "alive" /\ procs'[p].st \in {"done", "crashed"}

\* C7: the termination of a training process changes nothing in the router
\* but that process's liveness: agent_store, the job list and the requests in
\* flight are as before, the other processes too, and no parse or training
\* request that would have been served before it raises after it.
C7_TerminationIsolated ==
    [][\A p \in Pids :
          Terminates(p) =>
              /\ agent_store' = agent_store
              /\ _train_procs' = _train_procs
              /\ <<pc, local, ret>>' = <<pc, local, ret>>
              /\ procs'[p].name = procs[p].name
              /\ \A q \in Pids \ {p} : procs'[q] = procs[q]
              /\ \A ov \in Names \cup {None, ""} :
                    TrainOutcome(ov) = "ok" => TrainOutcome(ov)' = "ok"
              /\ \A a \in Names \cup {GhostName, None}, f \in BOOLEAN,
                       g \in LogFaults :
                    ParseOutcome(a, f, g) = "ok" => ParseOutcome(a, f, g)' = "ok"]_vars

\* C7 happens: one training process of greeter has crashed and another has
\* succeeded and published its artifact, and agent_store is still the store
\* built at startup.
C7_Witness ==
    /\ \E p \in Pids : procs[p].st = "crashed" /\ procs[p].name = "greeter"
    /\ \E p \in Pids : procs[p].st = "done" /\ procs[p].name = "greeter"
    /\ disk["greeter"] # NoArtifact
    /\ agent_store = [n \in {DEFAULT_AGENT_NAME} |-> Agent(NoArtifact)]

\* No training process has been created yet.
NoTrainingYet == \A p \in Pids : procs[p].st = "none"

\* C8: after construction, and until the first training is launched, the keys
\* of agent_store are the names in the model directory when it exists and is
\* not empty, and exactly {"default"} otherwise; the job list is empty and a
\* get_status reports zero trainings and no process ids.
C8_InitialRegistry ==
    NoTrainingYet =>
        /\ DOMAIN agent_store =
              (IF dir_exists /\ listdir # {} THEN listdir ELSE {DEFAULT_AGENT_NAME})
        /\ _train_procs = <<>>
        /\ \A w \in Workers :
              ret[w].op = "status" => ret[w].val = 0 /\ ret[w].ids = <<>>

\* C8 happens: the router was built on a missing model directory and a first
\* get_status has been answered before any training.
C8_Witness ==
    /\ NoTrainingYet
    /\ ~dir_exists
    /\ DOMAIN agent_store = {DEFAULT_AGENT_NAME}
    /\ \E w \in Workers : ret[w].op = "status"

\* A step in which worker w enters start_train_process; the name its
\* overrides carry; whether it is rejected for a missing name.
EntersTrain(w) ==
    /\ pc[w] = "idle"
    /\ \/ pc'[w] \in {"t_set", "t_create"}
       \/ (pc'[w] = "idle" /\ ret'[w].op = "train" /\ ret'[w] # ret[w])
OverrideOf(w) == IF pc'[w] = "idle" THEN ret'[w].arg ELSE local'[w].arg
RejectedNoName(w) == pc'[w] = "idle" /\ ret'[w].out = "InvalidModelError"

C10_LiveJobListed ==
    \A p \in Pids : procs[p].st \in {"new", "alive"} => p \in Range(_train_procs)

\* C11: an accepted training request returns to its caller a job handle that
\* identifies the process it launched, the identity get_status lists.
C11_ReturnsJobHandle ==
    \A w \in Workers :
        (ret[w].op = "train" /\ ret[w].out = "ok")
            => /\ ret[w].val \in Pids
               /\ procs[ret[w].val].name = ret[w].name
               /\ ident(ret[w].val) = ret[w].val

\* C13: the checks for a missing name and for a job in progress come before
\* the training data is written to a temporary file: a request rejected with
\* InvalidModelError or AlreadyTrainingError has written no temporary file.
C13_RejectedWritesNoFile ==
    \A w \in Workers :
        (ret[w].op = "train"
         /\ ret[w].out \in {"InvalidModelError", "AlreadyTrainingError"})
            => ~ret[w].tmp

\* A process that has terminated, whether it succeeded or crashed.
Finished(p) == procs[p].st \in {"done", "crashed"}

\* C14: terminated jobs are dropped from the job list on every status query
\* and at the start of every training request, before the request is
\* accepted or rejected: a status query assigns to the job list the
\* processes it found alive, and the job list a training request is decided
\* on holds no terminated process.
C14_ReapedOnEveryRequest ==
    [][\A w \in Workers :
          /\ (pc[w] \in {"s_len", "s_ids"} /\ pc'[w] # pc[w])
                => _train_procs' = local[w].list
          /\ EntersTrain(w)
                => \A p \in Range(_train_procs') : ~Finished(p)]_vars

\* C15: every get_status response is one point-in-time view of the active
\* jobs: trainings_under_this_process is the length of training_process_ids
\* of the same response.
C15_StatusConsistent ==
    \A w \in Workers :
        ret[w].op = "status" => ret[w].val = Len(ret[w].ids)

\* The router state a request can change: the store, the job list and the
\* processes.
routerState == <<agent_store, _train_procs, procs>>

\* C16: a parse request for a name that is a key of agent_store changes no
\* router state: it goes to the inference without a lookup in the model
\* directory, and agent_store (keys, entries, status flags), the job list and
\* the processes are the same when it returns.
C16_ParseOfStoredNameChangesNothing ==
    [][\A w \in Workers :
          /\ (EntersParse(w) /\ local'[w].agent \in DOMAIN agent_store)
                => pc'[w] = "p_infer" /\ routerState' = routerState
          /\ (pc[w] = "p_infer" /\ Responds(w, "parse"))
                => routerState' = routerState]_vars

\* C16 happens: a parse was served for an agent that is training, with its
\* job in the list, and the entry is still the one built at startup.
C16_Witness ==
    \E w \in Workers :
        /\ ret[w].op = "parse" /\ ret[w].out = "ok"
        /\ ret[w].name = "greeter"
        /\ Training(agent_store, "greeter")
        /\ agent_store["greeter"].artifact = SeedArtifact
        /\ disk["greeter"] # SeedArtifact
        /\ _train_procs # <<>>

\* A step in which worker w constructs an Agent and stores it.
Constructs(w) == pc[w] = "p_load" /\ pc'[w] = "p_infer"

\* C17: load-once under concurrency: whatever the interleaving of the parse
\* requests for a name that is in the model directory and not in agent_store,
\* the agent is constructed once: no request constructs an agent for a name
\* that already has an entry.
C17_LoadedOnce ==
    [][\A w \in Workers :
          Constructs(w) => local[w].agent \notin DOMAIN agent_store]_vars

\* C18: resolution is idempotent with requests served one at a time: an
\* entry of agent_store is never removed or replaced by another artifact, no
\* Agent is constructed for a name that has an entry, and every parse for
\* such a name goes to the inference of the stored entry.
C18_ResolutionIdempotent ==
    [][/\ \A n \in DOMAIN agent_store :
             /\ n \in DOMAIN agent_store'
             /\ agent_store'[n].artifact = agent_store[n].artifact
       /\ \A w \in Workers :
             /\ Constructs(w) => local[w].agent \notin DOMAIN agent_store
             /\ (EntersParse(w) /\ local'[w].agent \in DOMAIN agent_store)
                   => pc'[w] = "p_infer"
             /\ (pc[w] = "p_infer" /\ Responds(w, "parse") /\ ret'[w].out = "ok")
                   => ret'[w].val = AgentParse(agent_store[local[w].agent])]_vars

\* C18 happens: greeter was trained and then loaded by a parse, a second
\* training was requested for it (the entry is marked) and has published a
\* newer artifact, and the parse that came after that request was served by
\* the entry stored first.
C18_Witness ==
    \E w \in Workers :
        /\ ret[w].op = "parse" /\ ret[w].out = "ok" /\ ret[w].name = "greeter"
        /\ Training(agent_store, "greeter")
        /\ \E p, q \in Pids :
              /\ p # q
              /\ procs[p].name = "greeter" /\ procs[p].st = "done"
              /\ procs[q].name = "greeter" /\ procs[q].st = "done"
              /\ agent_store["greeter"].artifact = ArtifactOf(p)
              /\ disk["greeter"] = ArtifactOf(q)
        /\ ret[w].val = agent_store["greeter"].artifact

\* C19: when the agent of a parse request is in the model directory and its
\* construction raises, the request fails with InvalidModelError and
\* agent_store is as before: no entry is added for the name, and a later
\* parse for it looks it up and loads it again.
C19_FailedLoadLeavesStore ==
    [][\A w \in Workers :
          (pc[w] = "p_load" /\ Responds(w, "parse")
                /\ dir_exists /\ local[w].agent \in listdir)
              => /\ ret'[w].out = "InvalidModelError"
                 /\ agent_store' = agent_store
                 /\ local[w].agent \notin DOMAIN agent_store
                       => ParseRoute(local[w].agent)' = "p_load"]_vars

\* C19 happens: the construction of greeter, published by a training, has
\* raised, and greeter has no entry.
C19_Witness ==
    \E w \in Workers :
        /\ ret[w].op = "parse" /\ ret[w].out = "InvalidModelError"
        /\ ret[w].msg = "No agent found with name. Error:"
        /\ ret[w].name = "greeter"
        /\ "greeter" \in listdir
        /\ "greeter" \notin DOMAIN agent_store

\* C20: with the query logger set up, a failure to build or to write the log
\* entry of a parse request does not fail the request: parse returns the
\* formatted inference of the stored entry.
C20_LogFailureServed ==
    [][\A w \in Workers :
          (pc[w] = "p_infer" /\ Responds(w, "parse") /\ responses)
              => /\ ret'[w].out = "ok"
                 /\ ret'[w].val = AgentParse(agent_store[local[w].agent])]_vars

\* C12: normalise_response_json maps every intent_ranking element
\* {name, confidence} to {intent, confidence} in the same order, and every
\* entity to location [start, end - 1] with start as it is and None for an
\* entity without end; applied again to the same input it returns the same
\* output, and it does not modify its input.
WatsonMapped(data, out) ==
    /\ Len(out.intents) = Len(data.intent_ranking)
    /\ \A i \in 1..Len(out.intents) :
           /\ out.intents[i].intent = data.intent_ranking[i].name
           /\ out.intents[i].confidence = data.intent_ranking[i].confidence
    /\ Len(out.entities) = Len(data.entities)
    /\ \A i \in 1..Len(out.entities) :
           LET e == data.entities[i]
               loc == out.entities[i].location
           IN  /\ Len(loc) = 2
               /\ IF "start" \in DOMAIN e THEN loc[1] = e["start"] ELSE loc[1] = None
               /\ IF "end" \in DOMAIN e THEN loc[2] = e["end"] - 1 ELSE loc[2] = None

C12_WatsonResponse ==
    /\ [](\A i \in 1..Len(w_outs) :
             /\ WatsonMapped(w_data, w_outs[i])
             /\ w_outs[i] = w_outs[1])
    /\ [][w_data' = w_data]_vars

\* Applied twice to a result with two intents and an entity with both offsets.
C12_Witness ==
    /\ Len(w_outs) = 2
    /\ Len(w_data.intent_ranking) = 2
    /\ w_data.intent_ranking[1] # w_data.intent_ranking[2]
    /\ \E i \in 1..Len(w_data.entities) :
           {"start", "end"} \subseteq DOMAIN w_data.entities[i]
    /\ \E i \in 1..Len(w_data.entities) :
           "end" \notin DOMAIN w_data.entities[i]

====
